---- MODULE Spec2Model ----
(***************************************************************************)
(* Model of tools/ModelGenerator.py: the four generators that turn the     *)
(* rows of an Excel data dictionary into a DDL script, a D2 diagram, a     *)
(* plain JSON dump and a structured JSON document, and the command line    *)
(* driver that runs them.                                                   *)
(*                                                                         *)
(* Cell text is a sequence of one-character strings, so that strip, lower, *)
(* replace, split and the sort order are computed as Python computes them. *)
(* A call written through one of the format templates is a record naming   *)
(* the template, the dialect and the template's arguments; a list joined   *)
(* into one argument is kept as the list.                                  *)
(***************************************************************************)
EXTENDS Integers, Sequences, FiniteSets, TLC

\* ------------------------------------------------------------------ text

\* The printable ASCII characters in code point order (32 .. 126); the grave
\* accent (code point 96) is written "\\x60".
Ascii ==
  << " ", "!", "\"", "#", "$", "%", "&", "'", "(", ")", "*", "+", ",", "-", ".", "/",
     "0", "1", "2", "3", "4", "5", "6", "7", "8", "9", ":", ";", "<", "=", ">", "?",
     "@", "A", "B", "C", "D", "E", "F", "G", "H", "I", "J", "K", "L", "M", "N", "O",
     "P", "Q", "R", "S", "T", "U", "V", "W", "X", "Y", "Z", "[", "\\", "]", "^", "_",
     "\\x60", "a", "b", "c", "d", "e", "f", "g", "h", "i", "j", "k", "l", "m", "n", "o",
     "p", "q", "r", "s", "t", "u", "v", "w", "x", "y", "z", "{", "|", "}", "~" >>

\* Position of a character in Ascii: its code point less 31.
CodeOf ==
  [c \in {Ascii[i] : i \in 1..Len(Ascii)} |-> CHOOSE i \in 1..Len(Ascii) : Ascii[i] = c]

Code(c) == CodeOf[c]

\* An empty cell, as pandas reads it: the float NaN, which is no text.
NaN == << "\\NaN" >>

\* pd.isna / pd.notna on a cell.
pd_isna(x) == x = NaN
pd_notna(x) == x # NaN

\* Python truthiness of a cell that is text: the empty string is false.
Truthy(x) == x # << >>

\* str.lower() on one character and on text.
LowerChar(c) ==
  IF Code(c) >= Code("A") /\ Code(c) <= Code("Z") THEN Ascii[Code(c) + 32] ELSE c

str_lower(s) == [i \in 1..Len(s) |-> LowerChar(s[i])]

\* str.strip(): leading and trailing white space removed.
RECURSIVE LStrip(_)
LStrip(s) == IF s # << >> /\ Head(s) = " " THEN LStrip(Tail(s)) ELSE s

RECURSIVE RStrip(_)
RStrip(s) ==
  IF s # << >> /\ s[Len(s)] = " " THEN RStrip(SubSeq(s, 1, Len(s) - 1)) ELSE s

str_strip(s) == RStrip(LStrip(s))

\* str.replace(old, new) for a one-character old.
RECURSIVE str_replace(_, _, _)
str_replace(s, old, new) ==
  IF s = << >> THEN << >>
  ELSE (IF Head(s) = old THEN new ELSE << Head(s) >>) \o str_replace(Tail(s), old, new)

\* old in s, for a one-character old.
Contains(s, c) == \E i \in 1..Len(s) : s[i] = c

\* Index of the first occurrence of c in s (c occurs in s).
FirstIndex(s, c) == CHOOSE i \in 1..Len(s) : s[i] = c /\ \A j \in 1..(i - 1) : s[j] # c

\* The order of Python on str: code point by code point, a proper prefix first.
RECURSIVE StrLess(_, _)
StrLess(a, b) ==
  IF b = << >> THEN FALSE
  ELSE IF a = << >> THEN TRUE
  ELSE IF Head(a) = Head(b) THEN StrLess(Tail(a), Tail(b))
  ELSE Code(Head(a)) < Code(Head(b))

\* The cell-wise strip of line 156 and line 377: text is stripped, NaN is kept.
StripCell(x) == IF x = NaN THEN x ELSE str_strip(x)

\* fillna(''): NaN becomes the empty string.
FillNa(x) == IF x = NaN THEN << >> ELSE x

\* ------------------------------------------------------------ dictionaries

\* A Python dict, which keeps insertion order: a sequence of [key, val].
DictHas(d, k) == \E i \in 1..Len(d) : d[i].key = k
DictGet(d, k) == d[CHOOSE i \in 1..Len(d) : d[i].key = k].val
DictKeys(d) == [i \in 1..Len(d) |-> d[i].key]
\* d[k] = v: a new key goes last, a known key keeps its place.
DictSet(d, k, v) ==
  IF DictHas(d, k)
  THEN [i \in 1..Len(d) |-> IF d[i].key = k THEN [key |-> k, val |-> v] ELSE d[i]]
  ELSE Append(d, [key |-> k, val |-> v])
\* d[k].append(x)
DictAppend(d, k, x) == DictSet(d, k, Append(DictGet(d, k), x))

\* ------------------------------------------------------------ type mapping

\* The Oracle to SQL Server data type mapping.
ORACLE_TO_SQLSERVER ==
  << [key |-> <<"N", "U", "M", "B", "E", "R">>,    val |-> <<"N", "U", "M", "E", "R", "I", "C">>],
     [key |-> <<"I", "N", "T", "E", "G", "E", "R">>,   val |-> <<"I", "N", "T">>],
     [key |-> <<"F", "L", "O", "A", "T">>,     val |-> <<"F", "L", "O", "A", "T">>],
     [key |-> <<"D", "E", "C", "I", "M", "A", "L">>,   val |-> <<"D", "E", "C", "I", "M", "A", "L">>],
     [key |-> <<"C", "H", "A", "R">>,      val |-> <<"C", "H", "A", "R">>],
     [key |-> <<"N", "C", "H", "A", "R">>,     val |-> <<"N", "C", "H", "A", "R">>],
     [key |-> <<"V", "A", "R", "C", "H", "A", "R", "2">>,  val |-> <<"V", "A", "R", "C", "H", "A", "R">>],
     [key |-> <<"N", "V", "A", "R", "C", "H", "A", "R", "2">>, val |-> <<"N", "V", "A", "R", "C", "H", "A", "R">>],
     [key |-> <<"C", "L", "O", "B">>,      val |-> <<"V", "A", "R", "C", "H", "A", "R", "(", "M", "A", "X", ")">>],
     [key |-> <<"N", "C", "L", "O", "B">>,     val |-> <<"N", "V", "A", "R", "C", "H", "A", "R", "(", "M", "A", "X", ")">>],
     [key |-> <<"J", "S", "O", "N">>,      val |-> <<"N", "V", "A", "R", "C", "H", "A", "R", "(", "M", "A", "X", ")">>],
     [key |-> <<"B", "O", "O", "L", "E", "A", "N">>,   val |-> <<"I", "N", "T">>],
     [key |-> <<"D", "A", "T", "E">>,      val |-> <<"D", "A", "T", "E", "T", "I", "M", "E">>],
     [key |-> <<"T", "I", "M", "E", "S", "T", "A", "M", "P">>, val |-> <<"D", "A", "T", "E", "T", "I", "M", "E", "2">>],
     [key |-> <<"B", "L", "O", "B">>,      val |-> <<"V", "A", "R", "B", "I", "N", "A", "R", "Y", "(", "M", "A", "X", ")">>],
     [key |-> <<"R", "A", "W">>,       val |-> <<"B", "I", "N", "A", "R", "Y">>] >>

\* SplitType that does not strip the base type.
SplitTypeUnstripped(sql_data_type) ==
  IF Contains(sql_data_type, "(")
  THEN LET i == FirstIndex(sql_data_type, "(")
       IN  [base_type |-> SubSeq(sql_data_type, 1, i - 1),
            params    |-> SubSeq(sql_data_type, i, Len(sql_data_type))]
  ELSE [base_type |-> sql_data_type, params |-> << >>]

\* The length/scale declaration split off the data type: base_type is what
\* stands before the first "(", stripped, and params is the rest with its "(".
SplitType(sql_data_type) ==
  IF Contains(sql_data_type, "(")
  THEN LET i == FirstIndex(sql_data_type, "(")
       IN  [base_type |-> str_strip(SubSeq(sql_data_type, 1, i - 1)),
            params    |-> SubSeq(sql_data_type, i, Len(sql_data_type))]
  ELSE [base_type |-> sql_data_type, params |-> << >>]

\* FixDefault that does not look at the base type.
FixDefaultAnyType(base_type, default) ==
  IF default = <<"F", "A", "L", "S", "E">> THEN <<"0">>
  ELSE IF default = <<"T", "R", "U", "E">> THEN <<"1">>
  ELSE default

\* The default value of a column whose base type is in the mapping: the
\* BOOLEAN defaults become the INT ones.
FixDefault(base_type, default) ==
  IF base_type = <<"B", "O", "O", "L", "E", "A", "N">>
  THEN IF default = <<"F", "A", "L", "S", "E">> THEN <<"0">>
       ELSE IF default = <<"T", "R", "U", "E">> THEN <<"1">>
       ELSE default
  ELSE default

\* The base type as the target data base names it.
MapBaseType(base_type) ==
  IF DictHas(ORACLE_TO_SQLSERVER, base_type)
  THEN DictGet(ORACLE_TO_SQLSERVER, base_type)
  ELSE base_type

\* ConvertType that maps for every db_type.
ConvertTypeAlways(db_type, sql_data_type, default) ==
  LET s == SplitType(sql_data_type)
  IN  [sql_data_type |-> MapBaseType(s.base_type) \o s.params,
       default |-> IF DictHas(ORACLE_TO_SQLSERVER, s.base_type)
                   THEN FixDefault(s.base_type, default)
                   ELSE default]

\* The data type and the default value of a row as the script of db_type
\* states them.
ConvertType(db_type, sql_data_type, default) ==
  IF db_type = "sqlserver"
  THEN LET s == SplitType(sql_data_type)
       IN  [sql_data_type |-> MapBaseType(s.base_type) \o s.params,
            default |-> IF DictHas(ORACLE_TO_SQLSERVER, s.base_type)
                        THEN FixDefault(s.base_type, default)
                        ELSE default]
  ELSE [sql_data_type |-> sql_data_type, default |-> default]

\* ------------------------------------------------------------ generate_ddl

\* The rows of the sheet read as text, every cell stripped.
ReadStripped(rows) ==
  [i \in 1..Len(rows) |-> [f \in DOMAIN rows[i] |-> StripCell(rows[i][f])]]

\* A row the DDL fold passes over.
DdlSkips(row) == pd_isna(row["DOMAIN"])

\* A cell put into an f-string: an empty cell is the float nan.
Format(x) == IF pd_isna(x) THEN <<"n", "a", "n">> ELSE x

\* "(" in sql_data_type raises TypeError when the cell of a row that is not
\* passed over is empty: the test is made for sqlserver alone.
RaisesTypeError(row, db_type) ==
  db_type = "sqlserver" /\ ~DdlSkips(row) /\ pd_isna(row["SQL_DATA_TYPE"])

\* The column definition of a row: name, type, length and scale, default and
\* NOT NULL.
ColumnDef(row, sql_data_type, default) ==
  Format(row["COLUMN_NAME"]) \o <<" ">> \o Format(sql_data_type)
    \o (IF pd_notna(row["DATA_LENGTH"]) /\ Truthy(row["DATA_LENGTH"])
        THEN <<"(">> \o row["DATA_LENGTH"]
               \o (IF pd_notna(row["SCALE"]) /\ Truthy(row["SCALE"])
                   THEN <<",">> \o row["SCALE"] ELSE << >>)
               \o <<")">>
        ELSE << >>)
    \o (IF pd_notna(default) /\ Truthy(default)
        THEN <<" ", "D", "E", "F", "A", "U", "L", "T", " ", "(">> \o default \o <<")">> ELSE << >>)
    \o (IF row["NOT_NULL"] = <<"Y">> THEN <<" ", "N", "O", "T", " ", "N", "U", "L", "L">> ELSE << >>)

\* The row is a primary key column, a natural key column.
IsPrimaryKey(row) == row["PRIMARY_KEY"] = <<"Y">>
IsNaturalKey(row) == row["NATURAL_KEY"] = <<"Y">>

\* HasForeignKey that looks at the target table alone.
HasForeignKeyTableOnly(row) ==
  pd_notna(row["FKEY_TABLE"]) /\ Truthy(row["FKEY_TABLE"])

\* The row names a foreign key: a target table and a target column.
HasForeignKey(row) ==
  /\ pd_notna(row["FKEY_TABLE"]) /\ Truthy(row["FKEY_TABLE"])
  /\ pd_notna(row["FKEY_COLUMN"]) /\ Truthy(row["FKEY_COLUMN"])

\* The row has a description.
HasComment(row) == pd_notna(row["DESCRIPTION"]) /\ Truthy(row["DESCRIPTION"])

\* The five dictionaries before the first row.
EmptyModel ==
  [tables |-> << >>, primary_keys |-> << >>, foreign_keys |-> << >>,
   comments |-> << >>, unique_keys |-> << >>]

\* Register without its test: the entries of a table are emptied at each of
\* its rows.
RegisterAnew(m, table_name) ==
  [tables       |-> DictSet(m.tables, table_name, << >>),
   primary_keys |-> DictSet(m.primary_keys, table_name, << >>),
   foreign_keys |-> DictSet(m.foreign_keys, table_name, << >>),
   comments     |-> DictSet(m.comments, table_name, << >>),
   unique_keys  |-> DictSet(m.unique_keys, table_name, << >>)]

\* A table name met for the first time gets an empty entry in each dictionary.
Register(m, table_name) ==
  IF DictHas(m.tables, table_name) THEN m
  ELSE [tables       |-> DictSet(m.tables, table_name, << >>),
        primary_keys |-> DictSet(m.primary_keys, table_name, << >>),
        foreign_keys |-> DictSet(m.foreign_keys, table_name, << >>),
        comments     |-> DictSet(m.comments, table_name, << >>),
        unique_keys  |-> DictSet(m.unique_keys, table_name, << >>)]

\* One turn of the loop over the rows.
FoldRow(m, row, db_type) ==
  IF DdlSkips(row) THEN m
  ELSE
    LET t == row["TABLE_NAME"]
        c == row["COLUMN_NAME"]
        conv == ConvertType(db_type, row["SQL_DATA_TYPE"], row["DEFAULT"])
        r == Register(m, t)
    IN  [tables |-> DictAppend(r.tables, t, ColumnDef(row, conv.sql_data_type, conv.default)),
         primary_keys |->
           IF IsPrimaryKey(row) THEN DictAppend(r.primary_keys, t, c) ELSE r.primary_keys,
         foreign_keys |->
           IF HasForeignKey(row)
           THEN DictAppend(r.foreign_keys, t, << c, row["FKEY_TABLE"], row["FKEY_COLUMN"] >>)
           ELSE r.foreign_keys,
         comments |->
           IF HasComment(row)
           THEN DictAppend(r.comments, t, << c, row["DESCRIPTION"] >>)
           ELSE r.comments,
         unique_keys |->
           IF IsNaturalKey(row) THEN DictAppend(r.unique_keys, t, c) ELSE r.unique_keys]

\* A call written to the script through a format template: the template, the
\* dialect whose template it is, the table and the other arguments.
Call(name, db_type, table_name, args) ==
  [call |-> name, fmt |-> db_type, table |-> table_name, args |-> args]

\* The description with its single quotes doubled.
SafeDescription(description) == str_replace(description, "'", <<"'", "'">>)

\* The statements of one table: CREATE TABLE, the keys, the comments.
TableCalls(m, db_type, table_name) ==
  << Call("CREATE_TABLE", db_type, table_name, DictGet(m.tables, table_name)) >>
  \o (IF DictGet(m.primary_keys, table_name) # << >>
      THEN << Call("CREATE_PRIMARY_KEY", db_type, table_name,
                   DictGet(m.primary_keys, table_name)) >>
      ELSE << >>)
  \o (IF DictGet(m.unique_keys, table_name) # << >>
      THEN << Call("CREATE_NATURAL_KEY", db_type, table_name,
                   DictGet(m.unique_keys, table_name)) >>
      ELSE << >>)
  \o [i \in 1..Len(DictGet(m.comments, table_name)) |->
        LET e == DictGet(m.comments, table_name)[i]
        IN  Call("ADD_COLUMN_COMMENT", db_type, table_name,
                 << e[1], SafeDescription(e[2]) >>)]

\* The foreign key calls of one table.
ForeignKeyCalls(m, db_type, table_name) ==
  [i \in 1..Len(DictGet(m.foreign_keys, table_name)) |->
     Call("CREATE_FOREIGN_KEY", db_type, table_name, DictGet(m.foreign_keys, table_name)[i])]

\* The concatenation of f[1], ..., f[n].
RECURSIVE Flatten(_)
Flatten(f) == IF f = << >> THEN << >> ELSE Head(f) \o Flatten(Tail(f))

\* The end of the script: Oracle closes its block, SQL Server has nothing.
EndScript(db_type) ==
  IF db_type = "sqlserver" THEN << >> ELSE << Call("END", db_type, << >>, << >>) >>

\* DdlScript with the foreign keys of a table written in the loop of the
\* tables, after its comments.
DdlScriptKeysWithTables(m, db_type) ==
  LET names == DictKeys(m.tables)
  IN  << Call("PROCEDURES", db_type, << >>, << >>) >>
      \o [i \in 1..Len(names) |-> Call("DROP_TABLE", db_type, names[i], << >>)]
      \o Flatten([i \in 1..Len(names) |->
                    TableCalls(m, db_type, names[i]) \o ForeignKeyCalls(m, db_type, names[i])])
      \o EndScript(db_type)

\* The script: the procedures file, the DROP calls, the tables, the foreign
\* keys and the end of the script.
DdlScript(m, db_type) ==
  LET names == DictKeys(m.tables)
  IN  << Call("PROCEDURES", db_type, << >>, << >>) >>
      \o [i \in 1..Len(names) |-> Call("DROP_TABLE", db_type, names[i], << >>)]
      \o Flatten([i \in 1..Len(names) |-> TableCalls(m, db_type, names[i])])
      \o Flatten([i \in 1..Len(names) |-> ForeignKeyCalls(m, db_type, names[i])])
      \o EndScript(db_type)

\* ------------------------------------------------- sanitize_d2_identifier

\* The D2 reserved keywords.
D2_RESERVED_KEYWORDS ==
  { <<"l", "i", "n", "k">>, <<"l", "a", "b", "e", "l">>, <<"s", "t", "y", "l", "e">>, <<"s", "h", "a", "p", "e">>, <<"i", "c", "o", "n">>, <<"t", "o", "o", "l", "t", "i", "p">>, <<"w", "i", "d", "t", "h">>,
    <<"h", "e", "i", "g", "h", "t">>, <<"c", "l", "a", "s", "s">>, <<"c", "l", "a", "s", "s", "e", "s">>, <<"c", "o", "n", "s", "t", "r", "a", "i", "n", "t">>, <<"s", "o", "u", "r", "c", "e", "-", "a", "r", "r", "o", "w", "h", "e", "a", "d">>,
    <<"t", "a", "r", "g", "e", "t", "-", "a", "r", "r", "o", "w", "h", "e", "a", "d">>, <<"d", "i", "r", "e", "c", "t", "i", "o", "n">>, <<"g", "r", "i", "d", "-", "r", "o", "w", "s">>, <<"g", "r", "i", "d", "-", "c", "o", "l", "u", "m", "n", "s">>, <<"v", "a", "r", "s">>,
    <<"s", "c", "e", "n", "a", "r", "i", "o", "s">>, <<"s", "t", "e", "p", "s">>, <<"l", "a", "y", "e", "r", "s">>, <<"n", "e", "a", "r">>, <<"t", "o", "p">>, <<"l", "e", "f", "t">>, <<"r", "i", "g", "h", "t">>,
    <<"b", "o", "t", "t", "o", "m">> }

\* A character of [a-zA-Z0-9_].
IsWordChar(c) ==
  \/ Code(c) >= Code("a") /\ Code(c) <= Code("z")
  \/ Code(c) >= Code("A") /\ Code(c) <= Code("Z")
  \/ Code(c) >= Code("0") /\ Code(c) <= Code("9")
  \/ c = "_"

\* sanitize_d2_identifier that looks the name up among the keywords as it is
\* written, without lower().
sanitize_d2_identifier_as_written(name) ==
  IF name = << >> THEN name
  ELSE IF \/ str_strip(name) \in D2_RESERVED_KEYWORDS
          \/ \E i \in 1..Len(name) : ~IsWordChar(name[i])
       THEN << "\"" >> \o str_replace(name, "\"", << "\\", "\"" >>) \o << "\"" >>
       ELSE name

\* The identifier as D2 takes it: quoted when it is a reserved keyword or
\* holds a character outside [A-Za-z0-9_], and unchanged otherwise.
sanitize_d2_identifier(name) ==
  IF name = << >> THEN name
  ELSE IF \/ str_strip(str_lower(name)) \in D2_RESERVED_KEYWORDS
          \/ \E i \in 1..Len(name) : ~IsWordChar(name[i])
       THEN << "\"" >> \o str_replace(name, "\"", << "\\", "\"" >>) \o << "\"" >>
       ELSE name

\* ------------------------------------------------------------- generate_d2

\* The rows of the sheet with every empty cell filled with '' and every cell
\* stripped.
ReadFilledStripped(rows) ==
  [i \in 1..Len(rows) |-> [f \in DOMAIN rows[i] |-> str_strip(FillNa(rows[i][f]))]]

\* drop_duplicates: the first occurrence of each element, in order.
RECURSIVE DropDuplicates(_)
DropDuplicates(s) ==
  IF s = << >> THEN << >>
  ELSE LET init == DropDuplicates(SubSeq(s, 1, Len(s) - 1))
           last == s[Len(s)]
       IN  IF \E i \in 1..Len(init) : init[i] = last THEN init ELSE Append(init, last)

\* The order of sort_values(['DOMAIN', 'TABLE_NAME']).
PairLess(p, q) ==
  \/ StrLess(p.domain, q.domain)
  \/ p.domain = q.domain /\ StrLess(p.table_name, q.table_name)

\* s, which is sorted, with p put in its place.
RECURSIVE SortedInsert(_, _)
SortedInsert(s, p) ==
  IF s = << >> THEN << p >>
  ELSE IF PairLess(p, Head(s)) THEN << p >> \o s
  ELSE << Head(s) >> \o SortedInsert(Tail(s), p)

RECURSIVE SortValues(_)
SortValues(s) ==
  IF s = << >> THEN << >> ELSE SortedInsert(SortValues(Tail(s)), Head(s))

\* UniqueTables without the sort: the pairs in the order of the rows.
UniqueTablesUnsorted(df) ==
  DropDuplicates(
    [i \in 1..Len(df) |-> [table_name |-> df[i]["TABLE_NAME"], domain |-> df[i]["DOMAIN"]]])

\* The unique (table, domain) pairs of the rows, sorted by domain and table.
UniqueTables(df) ==
  SortValues(DropDuplicates(
    [i \in 1..Len(df) |-> [table_name |-> df[i]["TABLE_NAME"], domain |-> df[i]["DOMAIN"]]]))

\* The column a row describes.
D2Column(col_row) ==
  [name      |-> col_row["COLUMN_NAME"],
   type      |-> col_row["SQL_DATA_TYPE"],
   pk        |-> col_row["PRIMARY_KEY"] = <<"Y">>,
   fk        |-> col_row["FKEY_TABLE"] # << >>,
   fk_table  |-> col_row["FKEY_TABLE"],
   fk_column |-> col_row["FKEY_COLUMN"]]

\* The columns of a table: its rows that have a domain.
TableColumns(df, table_name) ==
  LET Mine(r) == r["TABLE_NAME"] = table_name /\ r["DOMAIN"] # << >>
      mine == SelectSeq(df, Mine)
  IN  [i \in 1..Len(mine) |-> D2Column(mine[i])]

\* AllTablesUpTo that leaves the entry of a table as its first pair made it.
RECURSIVE AllTablesUpToFirstWins(_, _, _)
AllTablesUpToFirstWins(df, pairs, n) ==
  IF n = 0 THEN << >>
  ELSE LET before == AllTablesUpToFirstWins(df, pairs, n - 1)
           row == pairs[n]
       IN  IF row.domain = << >> \/ DictHas(before, row.table_name) THEN before
           ELSE DictSet(before, row.table_name,
                        [domain |-> row.domain,
                         columns |-> TableColumns(df, row.table_name)])

\* all_tables after the loop over the first n unique (table, domain) pairs.
RECURSIVE AllTablesUpTo(_, _, _)
AllTablesUpTo(df, pairs, n) ==
  IF n = 0 THEN << >>
  ELSE LET before == AllTablesUpTo(df, pairs, n - 1)
           row == pairs[n]
       IN  IF row.domain = << >> THEN before
           ELSE DictSet(before, row.table_name,
                        [domain |-> row.domain,
                         columns |-> TableColumns(df, row.table_name)])

AllTables(df) == AllTablesUpTo(df, UniqueTables(df), Len(UniqueTables(df)))

\* The tables grouped by domain: domains[domain] lists its table names.
RECURSIVE GroupByDomain(_, _)
GroupByDomain(all_tables, n) ==
  IF n = 0 THEN << >>
  ELSE LET before == GroupByDomain(all_tables, n - 1)
           domain == all_tables[n].val.domain
           had == IF DictHas(before, domain) THEN before ELSE DictSet(before, domain, << >>)
       IN  DictAppend(had, domain, all_tables[n].key)

\* The identifier of a domain.
DomainId(domain) == sanitize_d2_identifier(str_replace(str_lower(domain), " ", <<"_">>))

\* The constraints noted on a column.
Constraints(column) ==
  (IF column.pk THEN << "primary_key" >> ELSE << >>)
  \o (IF column.fk THEN << "foreign_key" >> ELSE << >>)

\* The block of a table inside its domain.
TableBlock(all_tables, table_name) ==
  LET cols == DictGet(all_tables, table_name).columns
  IN  [id |-> sanitize_d2_identifier(table_name),
       shape |-> "sql_table",
       columns |-> [i \in 1..Len(cols) |->
                      [name |-> sanitize_d2_identifier(cols[i].name),
                       type |-> cols[i].type,
                       constraints |-> Constraints(cols[i])]]]

\* The container of a domain with the blocks of its tables.
DomainBlock(all_tables, entry) ==
  [id |-> DomainId(entry.key),
   label |-> entry.key \o <<" ", "D", "o", "m", "a", "i", "n">>,
   tables |-> [i \in 1..Len(entry.val) |-> TableBlock(all_tables, entry.val[i])]]

\* The domain of the table a foreign key points at, 'Other' when the table is
\* not one of all_tables.
TargetDomain(all_tables, target_table) ==
  sanitize_d2_identifier(
    str_replace(
      str_lower(IF DictHas(all_tables, target_table)
                THEN DictGet(all_tables, target_table).domain
                ELSE <<"O", "t", "h", "e", "r">>),
      " ", <<"_">>))

\* The column gives a relationship.
IsRelationship(column) ==
  column.fk /\ column.fk_table # << >> /\ column.fk_column # << >>

\* Relationships that leaves out a foreign key whose target table is not one
\* of all_tables.
RelationshipsResolvedOnly(all_tables, entry) ==
  LET Resolved(column) == IsRelationship(column) /\ DictHas(all_tables, column.fk_table)
      fks == SelectSeq(entry.val.columns, Resolved)
  IN  [i \in 1..Len(fks) |->
         [from_domain |-> TargetDomain(all_tables, fks[i].fk_table),
          from_table  |-> sanitize_d2_identifier(fks[i].fk_table),
          to_domain   |-> DomainId(entry.val.domain),
          to_table    |-> sanitize_d2_identifier(entry.key),
          source_arrowhead |-> "diamond",
          target_arrowhead |-> "arrow",
          label |-> "has"]]

\* The relationships of one table: from the table pointed at to the table.
Relationships(all_tables, entry) ==
  LET fks == SelectSeq(entry.val.columns, IsRelationship)
  IN  [i \in 1..Len(fks) |->
         [from_domain |-> TargetDomain(all_tables, fks[i].fk_table),
          from_table  |-> sanitize_d2_identifier(fks[i].fk_table),
          to_domain   |-> DomainId(entry.val.domain),
          to_table    |-> sanitize_d2_identifier(entry.key),
          source_arrowhead |-> "diamond",
          target_arrowhead |-> "arrow",
          label |-> "has"]]

\* The content of the D2 file: the domain containers, then the relationships.
D2Content(rows) ==
  LET df == ReadFilledStripped(rows)
      all_tables == AllTables(df)
      domains == GroupByDomain(all_tables, Len(all_tables))
  IN  [domains |-> [i \in 1..Len(domains) |-> DomainBlock(all_tables, domains[i])],
       relationships |->
         Flatten([i \in 1..Len(all_tables) |-> Relationships(all_tables, all_tables[i])])]

\* ----------------------------------------------------- generate_plain_json

\* null, as to_json writes an empty cell.
JsonNull == << "\\null" >>

\* The records of the plain JSON file: every row of the sheet, in order.
PlainJson(rows) ==
  [i \in 1..Len(rows) |->
     [f \in DOMAIN rows[i] |-> IF pd_isna(rows[i][f]) THEN JsonNull ELSE rows[i][f]]]

\* ------------------------------------------------ generate_structured_json

\* The rows of the sheet with every empty cell filled with ''.
ReadFilled(rows) ==
  [i \in 1..Len(rows) |-> [f \in DOMAIN rows[i] |-> FillNa(rows[i][f])]]

\* The fields of a row that are kept in its column record.
ColumnData(row) ==
  [f \in DOMAIN row \ {"DOMAIN", "TABLE_NAME", "TABLE_FLAGS", "TABLE_DESCRIPTION", "COMMENTS"}
     |-> row[f]]

\* One turn of the grouping loop.
GroupRow(domains, row) ==
  IF row["DOMAIN"] = << >> THEN domains
  ELSE
    LET domain == row["DOMAIN"]
        table_name == row["TABLE_NAME"]
        d1 == IF DictHas(domains, domain) THEN domains ELSE DictSet(domains, domain, << >>)
        t0 == DictGet(d1, domain)
        t1 == IF DictHas(t0, table_name) THEN t0
              ELSE DictSet(t0, table_name,
                           [TABLE_FLAGS |-> row["TABLE_FLAGS"],
                            TABLE_DESCRIPTION |-> row["TABLE_DESCRIPTION"],
                            COLUMNS |-> << >>])
        old == DictGet(t1, table_name)
    IN  DictSet(d1, domain,
                DictSet(t1, table_name,
                        [old EXCEPT !.COLUMNS = Append(old.COLUMNS, ColumnData(row))]))

RECURSIVE GroupRows(_, _)
GroupRows(df, n) == IF n = 0 THEN << >> ELSE GroupRow(GroupRows(df, n - 1), df[n])

\* grouped_data["DOMAINS"] as it is dumped.
StructuredJson(rows) == LET df == ReadFilled(rows) IN GroupRows(df, Len(df))

\* ------------------------------------------------------------ the program

VARIABLES
  mode,          \* -mode
  db_type,       \* -dbtype
  excel_exists,  \* the Excel file of -model exists
  sheet_exists,  \* the sheet of -sheet is in the Excel file
  procs_exists,  \* the procedures file of db_type is in the working directory
  out_exists,    \* the folder of -out exists
  sheet,         \* the rows of the sheet
  pc,            \* the function the program is in, "done" or "exit"
  exit_code,     \* the exit status of the process, -1 while it runs
  stdout,        \* the messages printed
  df,            \* generate_ddl: the rows read
  idx,           \* generate_ddl: the row the loop is at
  tables, primary_keys, foreign_keys, comments, unique_keys,
                 \* generate_ddl: the five dictionaries
  files          \* the output files written: name -> content

vars ==
  << mode, db_type, excel_exists, sheet_exists, procs_exists, out_exists, sheet, pc,
     exit_code, stdout, df, idx, tables, primary_keys, foreign_keys, comments,
     unique_keys, files >>

\* The path given with -model (the default).
excel_file == "Model.xlsx"

\* The choices of -mode and -dbtype.
Modes == {"ddl", "d2", "pjson", "sjson", "all"}
DbTypes == {"oracle", "sqlserver"}

\* The generators in the order the main program calls them.
Generators ==
  << [mode |-> "ddl",   pc |-> "generate_ddl"],
     [mode |-> "d2",    pc |-> "generate_d2"],
     [mode |-> "pjson", pc |-> "generate_plain_json"],
     [mode |-> "sjson", pc |-> "generate_structured_json"] >>

\* The generator the main program calls after the k-th, "done" if none.
MainAfter(m, k) ==
  LET later == {j \in (k + 1)..Len(Generators) : m \in {Generators[j].mode, "all"}}
  IN  IF later = {} THEN "done"
      ELSE Generators[CHOOSE j \in later : \A i \in later : j <= i].pc

\* print(...)
Printed(text, arg) == Append(stdout, [text |-> text, arg |-> arg])

\* The program leaves a generator for the next one, or ends.
Return(k) ==
  /\ pc' = MainAfter(mode, k)
  /\ exit_code' = IF MainAfter(mode, k) = "done" THEN 0 ELSE exit_code

\* sys.exit(1), and an exception nobody catches.
Exit1 == pc' = "exit" /\ exit_code' = 1

\* output_folder is given: it is made if it is not there.
MakeOutputFolder == out_exists' = TRUE

ddl_locals == << df, idx, tables, primary_keys, foreign_keys, comments, unique_keys >>
args_and_input == << mode, db_type, excel_exists, sheet_exists, procs_exists, sheet >>

\* A row of the sheet.
Columns ==
  { "DOMAIN", "TABLE_NAME", "COLUMN_NAME", "DATA_TYPE", "SQL_DATA_TYPE", "DATA_LENGTH",
    "SCALE", "NOT_NULL", "DEFAULT", "PRIMARY_KEY", "FKEY_TABLE", "FKEY_COLUMN",
    "DESCRIPTION", "NATURAL_KEY", "TABLE_FLAGS", "TABLE_DESCRIPTION", "COMMENTS" }

\* ---- generate_ddl

\* The Excel file is not there.
ddl_no_excel ==
  /\ pc = "generate_ddl" /\ ~excel_exists
  /\ stdout' = Printed("Error: The specified Excel file does not exist.", excel_file)
  /\ Exit1
  /\ UNCHANGED << args_and_input, out_exists, ddl_locals, files >>

\* The sheet is not in the Excel file.
ddl_no_sheet ==
  /\ pc = "generate_ddl" /\ excel_exists /\ ~sheet_exists
  /\ stdout' = Printed("Error: The specified Excel sheet does not exist in the Excel file.",
                      "sheet")
  /\ Exit1
  /\ UNCHANGED << args_and_input, out_exists, ddl_locals, files >>

\* The procedures file is not there: the output folder is made by then.
ddl_no_procedures ==
  /\ pc = "generate_ddl" /\ excel_exists /\ sheet_exists /\ ~procs_exists
  /\ MakeOutputFolder
  /\ stdout' = Printed("Error: The specified SQL procedures file does not exist.", db_type)
  /\ Exit1
  /\ UNCHANGED << args_and_input, ddl_locals, files >>

\* The checks pass: the sheet is read and the dictionaries are empty.
ddl_read ==
  /\ pc = "generate_ddl" /\ excel_exists /\ sheet_exists /\ procs_exists
  /\ MakeOutputFolder
  /\ df' = ReadStripped(sheet)
  /\ idx' = 1
  /\ tables' = EmptyModel.tables
  /\ primary_keys' = EmptyModel.primary_keys
  /\ foreign_keys' = EmptyModel.foreign_keys
  /\ comments' = EmptyModel.comments
  /\ unique_keys' = EmptyModel.unique_keys
  /\ pc' = "ddl_rows"
  /\ UNCHANGED << args_and_input, exit_code, stdout, files >>

\* The five dictionaries as one value.
Model ==
  [tables |-> tables, primary_keys |-> primary_keys, foreign_keys |-> foreign_keys,
   comments |-> comments, unique_keys |-> unique_keys]

\* The loop takes the next row; the exception of a row ends the process.
ddl_row ==
  /\ pc = "ddl_rows" /\ idx <= Len(df)
  /\ IF RaisesTypeError(df[idx], db_type)
     THEN /\ Exit1
          /\ UNCHANGED << idx, tables, primary_keys, foreign_keys, comments, unique_keys >>
     ELSE /\ LET m == FoldRow(Model, df[idx], db_type)
             IN  /\ tables' = m.tables
                 /\ primary_keys' = m.primary_keys
                 /\ foreign_keys' = m.foreign_keys
                 /\ comments' = m.comments
                 /\ unique_keys' = m.unique_keys
          /\ idx' = idx + 1
          /\ UNCHANGED << pc, exit_code >>
  /\ UNCHANGED << args_and_input, out_exists, stdout, df, files >>

\* The rows are done: the script is written.
ddl_write ==
  /\ pc = "ddl_rows" /\ idx > Len(df)
  /\ files' = [files EXCEPT !.ddl = DdlScript(Model, db_type)]
  /\ stdout' = Printed("DDL Generation complete.", db_type)
  /\ Return(1)
  /\ UNCHANGED << args_and_input, out_exists, ddl_locals >>

\* ---- generate_d2

\* d2_no_excel with the output folder made before the Excel file is looked for.
d2_no_excel_folder_first ==
  /\ pc = "generate_d2" /\ ~excel_exists
  /\ MakeOutputFolder
  /\ stdout' = Printed("Error: The specified Excel file does not exist.", excel_file)
  /\ Exit1
  /\ UNCHANGED << args_and_input, ddl_locals, files >>

\* The Excel file is not there.
d2_no_excel ==
  /\ pc = "generate_d2" /\ ~excel_exists
  /\ stdout' = Printed("Error: The specified Excel file does not exist.", excel_file)
  /\ Exit1
  /\ UNCHANGED << args_and_input, out_exists, ddl_locals, files >>

\* The sheet is not in the Excel file: read_excel raises, after the output
\* folder is made, and prints nothing on stdout.
d2_no_sheet ==
  /\ pc = "generate_d2" /\ excel_exists /\ ~sheet_exists
  /\ MakeOutputFolder
  /\ Exit1
  /\ UNCHANGED << args_and_input, stdout, ddl_locals, files >>

d2_write ==
  /\ pc = "generate_d2" /\ excel_exists /\ sheet_exists
  /\ MakeOutputFolder
  /\ files' = [files EXCEPT !.d2 = << D2Content(sheet) >>]
  /\ stdout' = Printed("D2 diagram generation complete", "d2")
  /\ Return(2)
  /\ UNCHANGED << args_and_input, ddl_locals >>

\* ---- generate_plain_json

pjson_no_excel ==
  /\ pc = "generate_plain_json" /\ ~excel_exists
  /\ stdout' = Printed("Error: The specified Excel file does not exist.", excel_file)
  /\ Exit1
  /\ UNCHANGED << args_and_input, out_exists, ddl_locals, files >>

pjson_no_sheet ==
  /\ pc = "generate_plain_json" /\ excel_exists /\ ~sheet_exists
  /\ stdout' = Printed("Error: The specified Excel sheet does not exist in the Excel file.",
                      "sheet")
  /\ Exit1
  /\ UNCHANGED << args_and_input, out_exists, ddl_locals, files >>

pjson_write ==
  /\ pc = "generate_plain_json" /\ excel_exists /\ sheet_exists
  /\ MakeOutputFolder
  /\ files' = [files EXCEPT !.pjson = << PlainJson(sheet) >>]
  /\ stdout' = Printed("Plain JSON file generation complete", "pjson")
  /\ Return(3)
  /\ UNCHANGED << args_and_input, ddl_locals >>

\* ---- generate_structured_json

sjson_no_excel ==
  /\ pc = "generate_structured_json" /\ ~excel_exists
  /\ stdout' = Printed("Error: The specified Excel file does not exist.", excel_file)
  /\ Exit1
  /\ UNCHANGED << args_and_input, out_exists, ddl_locals, files >>

sjson_no_sheet ==
  /\ pc = "generate_structured_json" /\ excel_exists /\ ~sheet_exists
  /\ stdout' = Printed("Error: The specified Excel sheet does not exist in the Excel file.",
                      "sheet")
  /\ Exit1
  /\ UNCHANGED << args_and_input, out_exists, ddl_locals, files >>

sjson_write ==
  /\ pc = "generate_structured_json" /\ excel_exists /\ sheet_exists
  /\ MakeOutputFolder
  /\ files' = [files EXCEPT !.sjson = << StructuredJson(sheet) >>]
  /\ stdout' = Printed("Structured JSON file generation complete", "sjson")
  /\ Return(4)
  /\ UNCHANGED << args_and_input, ddl_locals >>

Next ==
  \/ ddl_no_excel \/ ddl_no_sheet \/ ddl_no_procedures \/ ddl_read \/ ddl_row \/ ddl_write
  \/ d2_no_excel \/ d2_no_sheet \/ d2_write
  \/ pjson_no_excel \/ pjson_no_sheet \/ pjson_write
  \/ sjson_no_excel \/ sjson_no_sheet \/ sjson_write

\* ------------------------------------------------------------- the inputs

\* A row of the sheet from its cells; the cells not named are empty.
Row(dom, tab, col, typ, len, scale, nn, dflt, pk, nk, fkt, fkc, desc) ==
  [f \in Columns |->
     CASE f = "DOMAIN" -> dom
       [] f = "TABLE_NAME" -> tab
       [] f = "COLUMN_NAME" -> col
       [] f = "SQL_DATA_TYPE" -> typ
       [] f = "DATA_LENGTH" -> len
       [] f = "SCALE" -> scale
       [] f = "NOT_NULL" -> nn
       [] f = "DEFAULT" -> dflt
       [] f = "PRIMARY_KEY" -> pk
       [] f = "NATURAL_KEY" -> nk
       [] f = "FKEY_TABLE" -> fkt
       [] f = "FKEY_COLUMN" -> fkc
       [] f = "DESCRIPTION" -> desc
       [] OTHER -> NaN]

\* A row that differs in its grouping, key and comment cells.
KeyRow(dom, tab, col, pk, nk, fkt, fkc, desc) ==
  Row(dom, tab, col, <<"N", "U", "M", "B", "E", "R">>, NaN, NaN, <<"Y">>, NaN, pk, nk, fkt, fkc, desc)

\* Rows of two tables in two domains, with and without keys, foreign keys
\* (to a table of the sheet, to a table that is not in it, half filled in) and
\* descriptions, and rows whose DOMAIN cell is empty or holds a blank.
StructureRows ==
  { KeyRow(<<"B", " ", "c">>, <<"U">>, <<"i", "d">>, <<"Y">>, NaN,    NaN,    NaN,     <<"U", "'", "s", " ", "i", "d">>),
    KeyRow(<<"A", "b">>,  <<"T">>, <<"i", "d">>, <<"Y">>, <<"N">>,  NaN,    NaN,     NaN),
    KeyRow(<<"A", "b">>,  <<"T">>, <<"u">>,  NaN,   <<"Y">>,  <<"U">>,  <<"i", "d">>,  NaN),
    KeyRow(<<"B", " ", "c">>, <<"T">>, <<"x">>,  <<"N">>, NaN,    <<"X">>,  <<"i", "d">>,  <<"x">>),
    KeyRow(<<"A", "b">>,  <<"U">>, <<"t">>,  <<"Y">>, <<"Y">>,  <<"T">>,  <<"i", "d">>,  NaN),
    KeyRow(NaN,     <<"T">>, <<"n">>,  <<"Y">>, <<"Y">>,  <<"U">>,  <<"i", "d">>,  <<"n">>),
    KeyRow(<<" ">>,   <<"U">>, <<"w">>,  <<"Y">>, <<"Y">>,  <<"T">>,  <<"i", "d">>,  <<"w">>),
    KeyRow(<<"B", " ", "c">>, <<"U">>, <<"p">>,  <<"y">>, NaN,    <<"X">>,  <<" ">>,   <<" ">>) }

\* A row that differs in its type, length, scale, default and NOT NULL cells.
TypeRow(typ, dflt, shape) ==
  Row(<<"A", "b">>, <<"T">>, <<"c">>, typ, shape[1], shape[2], shape[3], dflt,
      NaN, NaN, NaN, NaN, NaN)

\* Types in and not in the mapping, with and without a length declaration,
\* with every kind of default.
TypeRows ==
  { TypeRow(typ, dflt, shape) :
      typ \in { <<"N", "U", "M", "B", "E", "R">>, <<"N", "U", "M", "B", "E", "R", "(", "1", "0", ",", "2", ")">>, <<"V", "A", "R", "C", "H", "A", "R", "2", " ", "(", "5", "0", ")">>, <<"B", "O", "O", "L", "E", "A", "N">>,
                <<"B", "O", "O", "L", "E", "A", "N", "(", "1", ")">>, <<"C", "L", "O", "B">>, <<"X", "M", "L", "T", "Y", "P", "E">>, <<"b", "o", "o", "l", "e", "a", "n">> },
      dflt \in { NaN, <<" ">>, <<"T", "R", "U", "E">>, <<"F", "A", "L", "S", "E">>, <<"0">> },
      shape \in { << NaN, NaN, NaN >>, << <<"5">>, NaN, <<"Y">> >>, << <<"5">>, <<"2">>, <<"N">> >> } }

\* The longest sheet of structure rows, and of type rows.
MaxRows == 3
MaxTypeRows == 1

\* The sheets of at most n rows of RS, no row twice.
Sheets(RS, n) ==
  UNION { { s \in [1..k -> RS] : \A i, j \in 1..k : i # j => s[i] # s[j] } : k \in 0..n }

\* Before main runs: nothing is printed or written.
InitProgram ==
  /\ pc = MainAfter(mode, 0)
  /\ exit_code = -1
  /\ stdout = << >>
  /\ df = << >>
  /\ idx = 1
  /\ tables = << >> /\ primary_keys = << >> /\ foreign_keys = << >>
  /\ comments = << >> /\ unique_keys = << >>
  /\ files = [ddl |-> << >>, d2 |-> << >>, pjson |-> << >>, sjson |-> << >>]

\* Every mode and every state of the file system, on a sheet of at most one row.
InitAnyFiles(RS) ==
  /\ mode \in Modes
  /\ db_type \in DbTypes
  /\ excel_exists \in BOOLEAN
  /\ sheet_exists \in (IF excel_exists THEN BOOLEAN ELSE {FALSE})
  /\ procs_exists \in BOOLEAN
  /\ out_exists \in BOOLEAN
  /\ sheet \in (IF sheet_exists THEN Sheets(RS, 1) ELSE {<< >>})
  /\ InitProgram

\* Every generator on every sheet of at most n rows, all files in place.
InitAnySheet(RS, n) ==
  /\ mode = "all"
  /\ db_type \in DbTypes
  /\ excel_exists = TRUE
  /\ sheet_exists = TRUE
  /\ procs_exists = TRUE
  /\ out_exists = FALSE
  /\ sheet \in Sheets(RS, n)
  /\ InitProgram

Init == InitAnyFiles(StructureRows) \/ InitAnySheet(StructureRows, MaxRows)

Spec == Init /\ [][Next]_vars

InitTypes == InitAnyFiles(TypeRows) \/ InitAnySheet(TypeRows, MaxTypeRows)

SpecTypes == InitTypes /\ [][Next]_vars

\* A row that differs in the cells the diagram takes identifiers from.
NameRow(dom, tab, col, fkt) ==
  KeyRow(dom, tab, col, <<"Y">>, NaN, fkt, <<"i", "d">>, NaN)

\* Names that are plain, keywords in lower and in upper case, with a blank
\* before or inside them, with a hyphen and with a double quote, and no name.
NameRows ==
  { NameRow(dom, tab, col, fkt) :
      dom \in { <<"T", "o", "p">>, <<"a", "\"", " ", "b">> },
      tab \in { <<"T", "_", "1">>, <<"t", "o", "p">>, <<"L", "a", "b", "e", "l">>, <<" ", "t", "o", "p">>,
                <<"a", "\"", "b">>, NaN },
      col \in { <<"T", "o", "p">>, <<"x", "-", "\"", "y", "\"">> },
      fkt \in { NaN, <<"L", "E", "F", "T">> } }

\* The longest sheet of name rows.
MaxNameRows == 1

InitNames == InitAnyFiles(NameRows) \/ InitAnySheet(NameRows, MaxNameRows)

SpecNames == InitNames /\ [][Next]_vars

\* A row that differs in its type and default and in what it asks for: a
\* primary key, or a natural key, a foreign key and a comment, or nothing.
DialectRow(tab, typ, dflt, asks) ==
  Row(<<"A", "b">>, tab, <<"c">>, typ, NaN, NaN, NaN, dflt,
      asks[1], asks[2], asks[3], <<"i", "d">>, asks[4])

\* Rows of two tables with a type of the mapping, a type with a length and no
\* type yet.
DialectRows ==
  { DialectRow(tab, typ, dflt, asks) :
      tab \in { <<"T">>, <<"U">> },
      typ \in { NaN, <<"B", "O", "O", "L", "E", "A", "N">>, <<"V", "A", "R", "C", "H", "A", "R", "2", " ", "(", "5", "0", ")">> },
      dflt \in { NaN, <<"F", "A", "L", "S", "E">> },
      asks \in { << <<"Y">>, NaN, NaN, NaN >>,
                 << NaN, <<"Y">>, <<"U">>, <<"i", "t", "'", "s">> >>,
                 << NaN, NaN, NaN, NaN >> } }

\* The longest sheet of dialect rows.
MaxDialectRows == 2

InitDialects == InitAnyFiles(DialectRows) \/ InitAnySheet(DialectRows, MaxDialectRows)

SpecDialects == InitDialects /\ [][Next]_vars

\* ------------------------------------------------------------ the claims

\* A file of the output folder is written.
Written(f) == files[f] # << >>

\* A cell, as a generator has read it, that is filled in: neither NaN nor ''.
Filled(x) == x # NaN /\ x # << >>

\* The rows of s whose index is in S, in order (n = Len(s)).
RECURSIVE RowsIn(_, _, _)
RowsIn(s, S, n) ==
  IF n = 0 THEN << >>
  ELSE RowsIn(s, S, n - 1) \o (IF n \in S THEN << s[n] >> ELSE << >>)

\* The sheet without the rows whose DOMAIN is empty in read, which is the
\* sheet as a generator has read it.
WithDomain(rows, read) ==
  RowsIn(rows, {i \in 1..Len(rows) : Filled(read[i]["DOMAIN"])}, Len(rows))

\* The dictionaries after the loop over the first n rows.
RECURSIVE FoldRows(_, _, _)
FoldRows(rows, n, db) ==
  IF n = 0 THEN EmptyModel ELSE FoldRow(FoldRows(rows, n - 1, db), rows[n], db)

\* p is the beginning of s.
StartsWith(s, p) == Len(p) <= Len(s) /\ SubSeq(s, 1, Len(p)) = p

\* The calls of the script that are made through one template.
CallsOf(script, name) == LET Is(c) == c.call = name IN SelectSeq(script, Is)

\* The calls of the script that are made through one template for one table.
CallsFor(script, name, table_name) ==
  LET Is(c) == c.call = name /\ c.table = table_name IN SelectSeq(script, Is)

\* C1: a row whose DOMAIN is empty, in the rows a generator has read,
\* contributes nothing to the DDL script, the diagram and the structured JSON
\* (each is what the sheet without these rows gives), and is a record of the
\* plain JSON at its own position.
C1_EmptyDomainRowsLeftOut ==
  /\ Written("ddl") =>
       files.ddl = DdlScript(LET rows == ReadStripped(WithDomain(sheet, ReadStripped(sheet)))
                             IN  FoldRows(rows, Len(rows), db_type), db_type)
  /\ Written("d2") =>
       files.d2 = << D2Content(WithDomain(sheet, ReadFilledStripped(sheet))) >>
  /\ Written("sjson") =>
       files.sjson = << StructuredJson(WithDomain(sheet, ReadFilled(sheet))) >>
  /\ Written("pjson") =>
       /\ Len(files.pjson[1]) = Len(sheet)
       /\ \A i \in 1..Len(sheet) :
            ~Filled(FillNa(sheet[i]["DOMAIN"])) =>
              /\ files.pjson[1][i]["DOMAIN"] = JsonNull
              /\ files.pjson[1][i]["TABLE_NAME"] = sheet[i]["TABLE_NAME"]
              /\ files.pjson[1][i]["COLUMN_NAME"] = sheet[i]["COLUMN_NAME"]

\* The rows the loop of generate_ddl has taken so far.
Consumed == SubSeq(df, 1, idx - 1)

\* The rows taken so far whose DOMAIN is not empty.
WithDomainConsumed == {i \in 1..Len(Consumed) : Filled(Consumed[i]["DOMAIN"])}

\* The index of the first row of a table in rows.
FirstRowOf(rows, table_name) ==
  CHOOSE i \in 1..Len(rows) :
    /\ rows[i]["TABLE_NAME"] = table_name
    /\ \A j \in 1..(i - 1) : rows[j]["TABLE_NAME"] # table_name

\* The rows of a table, in order.
RowsOfTable(rows, table_name) ==
  LET Mine(r) == r["TABLE_NAME"] = table_name IN SelectSeq(rows, Mine)

\* The column definitions are those of the rows, one each, in order.
DefinesInOrder(defs, rows) ==
  /\ Len(defs) = Len(rows)
  /\ \A n \in 1..Len(defs) : StartsWith(defs[n], rows[n]["COLUMN_NAME"] \o <<" ">>)

\* The tables dictionary is built from the rows kept: each table once, in the
\* order of its first row, its columns in the order of its rows.
BuiltFrom(kept) ==
  LET keys == DictKeys(tables)
  IN  /\ \A i, j \in 1..Len(keys) : i # j => keys[i] # keys[j]
      /\ {keys[i] : i \in 1..Len(keys)} = {kept[i]["TABLE_NAME"] : i \in 1..Len(kept)}
      /\ \A i, j \in 1..Len(keys) :
           i < j => FirstRowOf(kept, keys[i]) < FirstRowOf(kept, keys[j])
      /\ \A k \in 1..Len(keys) :
           DefinesInOrder(tables[k].val, RowsOfTable(kept, keys[k]))

\* C2: while and after the loop of generate_ddl, every table of a row with a
\* domain is in the model exactly once, the tables are in first-seen order and
\* the columns of each table are in the order of their rows, also when the
\* rows of the tables are interleaved; the script drops and creates each table
\* once, in that order.
C2_TablesOnceInRowOrder ==
  pc = "ddl_rows" \/ Written("ddl") =>
    /\ \A i \in WithDomainConsumed :
         Cardinality({k \in 1..Len(tables) :
                        tables[k].key = Consumed[i]["TABLE_NAME"]}) = 1
    /\ \E S \in SUBSET (1..Len(Consumed)) :
         /\ WithDomainConsumed \subseteq S
         /\ BuiltFrom(RowsIn(Consumed, S, Len(Consumed)))
    /\ Written("ddl") =>
         /\ [i \in 1..Len(CallsOf(files.ddl, "DROP_TABLE")) |->
               CallsOf(files.ddl, "DROP_TABLE")[i].table] = DictKeys(tables)
         /\ [i \in 1..Len(CallsOf(files.ddl, "CREATE_TABLE")) |->
               CallsOf(files.ddl, "CREATE_TABLE")[i].table] = DictKeys(tables)

\* C2 witness: three rows with domains, the second of another table than the
\* first and the third, are folded into two tables.
C2_Witness ==
  /\ pc = "ddl_rows" /\ idx = 4
  /\ WithDomainConsumed = {1, 2, 3}
  /\ df[1]["TABLE_NAME"] = df[3]["TABLE_NAME"]
  /\ df[1]["TABLE_NAME"] # df[2]["TABLE_NAME"]
  /\ Len(tables) = 2 /\ Len(tables[1].val) = 2

\* The section of the script a call belongs to.
Section(c) ==
  CASE c.call = "PROCEDURES" -> 0
    [] c.call = "DROP_TABLE" -> 1
    [] c.call \in {"CREATE_TABLE", "CREATE_PRIMARY_KEY", "CREATE_NATURAL_KEY",
                   "ADD_COLUMN_COMMENT"} -> 2
    [] c.call = "CREATE_FOREIGN_KEY" -> 3
    [] c.call = "END" -> 4

\* The place of a call among the calls of its table.
PlaceInTable(c) ==
  CASE c.call = "CREATE_TABLE" -> 0
    [] c.call = "CREATE_PRIMARY_KEY" -> 1
    [] c.call = "CREATE_NATURAL_KEY" -> 2
    [] c.call = "ADD_COLUMN_COMMENT" -> 3

\* C3: the script starts with the procedures file; then come all the drops,
\* then table by table the create, the primary key, the natural key and the
\* comments, then all the foreign keys; the terminator is last for Oracle and
\* absent for SQL Server.
C3_SectionsInOrder ==
  Written("ddl") =>
    LET s == files.ddl
        n == Len(s)
    IN  /\ s[1].call = "PROCEDURES"
        /\ \A i \in 2..n : s[i].call # "PROCEDURES"
        /\ \A i, j \in 1..n : i < j => Section(s[i]) <= Section(s[j])
        /\ \A i, j \in 1..n :
             i < j /\ Section(s[i]) = 2 /\ Section(s[j]) = 2 =>
               IF s[i].table = s[j].table
               THEN /\ PlaceInTable(s[i]) <= PlaceInTable(s[j])
                    /\ PlaceInTable(s[i]) = PlaceInTable(s[j])
                         => s[i].call = "ADD_COLUMN_COMMENT"
                    /\ \A k \in i..j : s[k].table = s[i].table
               ELSE \E k \in (i + 1)..j :
                      s[k].call = "CREATE_TABLE" /\ s[k].table = s[j].table
        /\ \A i \in 1..n :
             Section(s[i]) = 2 =>
               \E k \in 1..i : s[k].call = "CREATE_TABLE" /\ s[k].table = s[i].table
        /\ db_type = "oracle" => s[n].call = "END" /\ \A i \in 1..(n - 1) : s[i].call # "END"
        /\ db_type = "sqlserver" => \A i \in 1..n : s[i].call # "END"

\* C3 witness: an Oracle script of two tables that has every kind of call.
C3_Witness ==
  /\ Written("ddl") /\ db_type = "oracle"
  /\ Len(CallsOf(files.ddl, "CREATE_TABLE")) = 2
  /\ \A name \in {"DROP_TABLE", "CREATE_PRIMARY_KEY", "CREATE_NATURAL_KEY",
                  "ADD_COLUMN_COMMENT", "CREATE_FOREIGN_KEY", "END"} :
       CallsOf(files.ddl, name) # << >>
  /\ Len(CallsFor(files.ddl, "ADD_COLUMN_COMMENT", files.ddl[2].table)) > 0
  /\ Len(CallsFor(files.ddl, "CREATE_FOREIGN_KEY", files.ddl[2].table)) > 0

\* The column names of the rows that satisfy Test, in order.
ColumnsWhere(rows, Test(_)) ==
  LET sel == SelectSeq(rows, Test) IN [i \in 1..Len(sel) |-> sel[i]["COLUMN_NAME"]]

\* The calls of a table are those its rows ask for.
TableCallsFrom(script, table_name, rows) ==
  LET Pk(r) == r["PRIMARY_KEY"] = <<"Y">>
      Nk(r) == r["NATURAL_KEY"] = <<"Y">>
      Fk(r) == Filled(r["FKEY_TABLE"]) /\ Filled(r["FKEY_COLUMN"])
      creates == CallsFor(script, "CREATE_TABLE", table_name)
      pks == CallsFor(script, "CREATE_PRIMARY_KEY", table_name)
      nks == CallsFor(script, "CREATE_NATURAL_KEY", table_name)
      fks == CallsFor(script, "CREATE_FOREIGN_KEY", table_name)
      fkrows == SelectSeq(rows, Fk)
  IN  /\ Len(creates) = 1
      /\ DefinesInOrder(creates[1].args, rows)
      /\ IF \E i \in 1..Len(rows) : Pk(rows[i])
         THEN Len(pks) = 1 /\ pks[1].args = ColumnsWhere(rows, Pk)
         ELSE pks = << >>
      /\ IF \E i \in 1..Len(rows) : Nk(rows[i])
         THEN Len(nks) = 1 /\ nks[1].args = ColumnsWhere(rows, Nk)
         ELSE nks = << >>
      /\ Len(fks) = Len(fkrows)
      /\ \A i \in 1..Len(fks) :
           fks[i].args = << fkrows[i]["COLUMN_NAME"], fkrows[i]["FKEY_TABLE"],
                            fkrows[i]["FKEY_COLUMN"] >>

\* C4: in the script, each table has one create-table call that holds the
\* columns of all its rows, a primary-key call if and only if one of its rows
\* has PRIMARY_KEY = "Y", listing those columns in row order (and so for the
\* natural key), and one foreign-key call for each of its rows with both
\* FKEY_TABLE and FKEY_COLUMN filled in, and for no other row.
C4_CallsOfATable ==
  Written("ddl") =>
    \E S \in SUBSET (1..Len(df)) :
      /\ {i \in 1..Len(df) : Filled(df[i]["DOMAIN"])} \subseteq S
      /\ LET kept == RowsIn(df, S, Len(df))
         IN  /\ {c.table : c \in {files.ddl[i] : i \in 1..Len(files.ddl)}} \ {<< >>}
                  = {kept[i]["TABLE_NAME"] : i \in 1..Len(kept)}
             /\ \A i \in 1..Len(kept) :
                  TableCallsFrom(files.ddl, kept[i]["TABLE_NAME"],
                                 RowsOfTable(kept, kept[i]["TABLE_NAME"]))

\* C4 witness: a table of two rows, the first a primary key, the second a
\* foreign key and no primary key, has one create-table call with both
\* columns, one primary-key call with the first and one foreign-key call.
C4_Witness ==
  /\ Written("ddl") /\ Len(df) = 2
  /\ df[1]["TABLE_NAME"] = df[2]["TABLE_NAME"]
  /\ Filled(df[1]["DOMAIN"]) /\ Filled(df[2]["DOMAIN"])
  /\ df[1]["PRIMARY_KEY"] = <<"Y">> /\ df[2]["PRIMARY_KEY"] = <<"N">>
  /\ Filled(df[2]["FKEY_TABLE"]) /\ Filled(df[2]["FKEY_COLUMN"])
  /\ ~Filled(df[1]["FKEY_TABLE"])
  /\ Len(CallsOf(files.ddl, "CREATE_TABLE")) = 1
  /\ Len(CallsOf(files.ddl, "CREATE_TABLE")[1].args) = 2
  /\ CallsOf(files.ddl, "CREATE_PRIMARY_KEY")[1].args = << df[1]["COLUMN_NAME"] >>
  /\ Len(CallsOf(files.ddl, "CREATE_FOREIGN_KEY")) = 1

\* The rows of the sheet as generate_d2 reads them, those with a domain.
DiagramRows ==
  LET HasDomain(r) == r["DOMAIN"] # << >>
  IN  SelectSeq(ReadFilledStripped(sheet), HasDomain)

\* The tables of the diagram.
DiagramTables == {DiagramRows[i]["TABLE_NAME"] : i \in 1..Len(DiagramRows)}

\* The foreign key entries of the diagram model: the rows with a target table
\* and a target column.
ForeignKeyEntries ==
  LET Fk(r) == r["FKEY_TABLE"] # << >> /\ r["FKEY_COLUMN"] # << >>
  IN  SelectSeq(DiagramRows, Fk)

\* Each foreign key entry has one relationship statement, and the statement of
\* an entry whose target table is not in the diagram starts at domain other.
OneRelationshipEach(other) ==
  Written("d2") =>
    LET rels == files.d2[1].relationships
        fks == ForeignKeyEntries
    IN  /\ Len(rels) = Len(fks)
        /\ \A e \in {fks[i] : i \in 1..Len(fks)} :
             Cardinality({i \in 1..Len(rels) :
                            /\ rels[i].to_table = sanitize_d2_identifier(e["TABLE_NAME"])
                            /\ rels[i].from_table = sanitize_d2_identifier(e["FKEY_TABLE"])})
               = Cardinality({i \in 1..Len(fks) :
                                /\ fks[i]["TABLE_NAME"] = e["TABLE_NAME"]
                                /\ fks[i]["FKEY_TABLE"] = e["FKEY_TABLE"]})
        /\ \A i \in 1..Len(rels) :
             (\E j \in 1..Len(fks) :
                /\ sanitize_d2_identifier(fks[j]["FKEY_TABLE"]) = rels[i].from_table
                /\ fks[j]["FKEY_TABLE"] \notin DiagramTables)
               => rels[i].from_domain = other

\* C5 as stated: every foreign key entry of the diagram model gives exactly
\* one relationship statement, and when its target table is not a table of the
\* model the source side domain of the statement is the literal "Other".
C5_UnknownTargetIsOther == OneRelationshipEach(<<"O", "t", "h", "e", "r">>)

\* C5 as amended: every foreign key entry of the diagram model gives exactly
\* one relationship statement, and when its target table is not a table of the
\* model the source side domain of the statement is "other", the literal
\* "Other" in lower case like every domain identifier.
C5_UnknownTargetIsLowerOther == OneRelationshipEach(<<"o", "t", "h", "e", "r">>)

\* C5 witness: the diagram has a relationship that starts at a table which is
\* not in the diagram.
C5_Witness ==
  /\ Written("d2")
  /\ \E i \in 1..Len(files.d2[1].relationships) :
       /\ files.d2[1].relationships[i].from_table = <<"X">>
       /\ files.d2[1].relationships[i].from_domain = <<"o", "t", "h", "e", "r">>
       /\ <<"X">> \notin DiagramTables

\* The domain a container of the diagram is labelled with.
BlockDomain(block) == SubSeq(block.label, 1, Len(block.label) - Len(<<" ", "D", "o", "m", "a", "i", "n">>))

\* The table of the diagram a block stands for.
BlockTable(block) ==
  CHOOSE t \in DiagramTables : sanitize_d2_identifier(t) = block.id

\* The index of the first row of the diagram that satisfies Test.
FirstDiagramRow(Test(_)) ==
  CHOOSE i \in 1..Len(DiagramRows) :
    Test(DiagramRows[i]) /\ \A j \in 1..(i - 1) : ~Test(DiagramRows[j])

FirstRowInDomain(domain) ==
  LET In(r) == r["DOMAIN"] = domain IN FirstDiagramRow(In)

FirstRowOfDiagramTable(table_name) ==
  LET Of(r) == r["TABLE_NAME"] = table_name IN FirstDiagramRow(Of)

\* C6 as stated: the domain containers are in the order in which the domains
\* are first seen in the rows, and the table blocks of a container are in the
\* order in which the tables are first seen in the rows.
C6_FirstSeenOrder ==
  Written("d2") =>
    LET blocks == files.d2[1].domains
    IN  /\ \A i, j \in 1..Len(blocks) :
             i < j => FirstRowInDomain(BlockDomain(blocks[i]))
                        < FirstRowInDomain(BlockDomain(blocks[j]))
        /\ \A b \in 1..Len(blocks) :
             \A i, j \in 1..Len(blocks[b].tables) :
               i < j => FirstRowOfDiagramTable(BlockTable(blocks[b].tables[i]))
                          < FirstRowOfDiagramTable(BlockTable(blocks[b].tables[j]))

\* The domains on the rows of a table, and the least of them.
DomainsOfTable(table_name) ==
  {DiagramRows[i]["DOMAIN"] :
     i \in {j \in 1..Len(DiagramRows) : DiagramRows[j]["TABLE_NAME"] = table_name}}

LeastDomain(table_name) ==
  CHOOSE d \in DomainsOfTable(table_name) :
    \A e \in DomainsOfTable(table_name) : d = e \/ StrLess(d, e)

\* The sort key of a table: its least domain, then its name.
SortKey(table_name) == [domain |-> LeastDomain(table_name), table_name |-> table_name]

KeyLess(a, b) ==
  \/ StrLess(a.domain, b.domain)
  \/ a.domain = b.domain /\ StrLess(a.table_name, b.table_name)

\* C6 as amended: the order of the diagram comes from sorting, not from the
\* order of the rows: the table blocks of a container are in ascending order
\* of (least DOMAIN on the rows of the table, TABLE_NAME), and the containers
\* are in ascending order of that key of their first table; so when every
\* table has one domain, the containers are in ascending order of DOMAIN and
\* the tables of a container in ascending order of TABLE_NAME.
C6_SortedOrder ==
  Written("d2") =>
    LET blocks == files.d2[1].domains
    IN  /\ \A b \in 1..Len(blocks) :
             \A i, j \in 1..Len(blocks[b].tables) :
               i < j => KeyLess(SortKey(BlockTable(blocks[b].tables[i])),
                                SortKey(BlockTable(blocks[b].tables[j])))
        /\ \A i, j \in 1..Len(blocks) :
             i < j => KeyLess(SortKey(BlockTable(blocks[i].tables[1])),
                              SortKey(BlockTable(blocks[j].tables[1])))
        /\ (\A t \in DiagramTables : Cardinality(DomainsOfTable(t)) = 1) =>
             /\ \A i, j \in 1..Len(blocks) :
                  i < j => StrLess(BlockDomain(blocks[i]), BlockDomain(blocks[j]))
             /\ \A b \in 1..Len(blocks) :
                  \A i, j \in 1..Len(blocks[b].tables) :
                    i < j => StrLess(BlockTable(blocks[b].tables[i]),
                                     BlockTable(blocks[b].tables[j]))

\* C6 witness: a diagram of two containers whose domains are first seen in the
\* rows in the other order, every table in one domain.
C6_Witness ==
  /\ Written("d2")
  /\ Len(files.d2[1].domains) = 2
  /\ \A t \in DiagramTables : Cardinality(DomainsOfTable(t)) = 1
  /\ FirstRowInDomain(BlockDomain(files.d2[1].domains[2]))
       < FirstRowInDomain(BlockDomain(files.d2[1].domains[1]))

\* The program is at the start of a generator.
InGenerator ==
  pc \in {"generate_ddl", "generate_d2", "generate_plain_json", "generate_structured_json"}

\* C7: when the Excel file does not exist, each generator ends the process
\* with exit status 1 after printing a message that names the path, and has
\* made no output file and no output folder.
C7_MissingExcelFile ==
  [][ InGenerator /\ ~excel_exists =>
        /\ pc' = "exit"
        /\ exit_code' # 0 /\ exit_code' = 1
        /\ Len(stdout') = Len(stdout) + 1
        /\ stdout'[Len(stdout')].arg = excel_file
        /\ files' = files /\ \A f \in DOMAIN files : ~Written(f)
        /\ out_exists' = out_exists ]_vars

\* C7 witness: the structured JSON generator has ended the process on a
\* missing Excel file, and there is no output folder.
C7_Witness ==
  /\ pc = "exit" /\ exit_code = 1 /\ mode = "sjson"
  /\ ~excel_exists /\ ~out_exists
  /\ stdout = << [text |-> "Error: The specified Excel file does not exist.",
                  arg |-> excel_file] >>

\* The column definitions of a table, in the dictionary and, once the script
\* is written, in its create-table call.
EmittedDefs(table_name) ==
  IF Written("ddl")
  THEN CallsFor(files.ddl, "CREATE_TABLE", table_name)[1].args
  ELSE DictGet(tables, table_name)

\* Every row taken so far that has a domain has a column definition in its
\* table that is as Claimed says.
EveryRowEmitted(Claimed(_, _)) ==
  \A i \in 1..Len(Consumed) :
    Filled(Consumed[i]["DOMAIN"]) =>
      \E n \in 1..Len(EmittedDefs(Consumed[i]["TABLE_NAME"])) :
        Claimed(EmittedDefs(Consumed[i]["TABLE_NAME"])[n], Consumed[i])

\* C8: for oracle, the dialect of the dictionary, the column definition of
\* every row has the SQL_DATA_TYPE and the DEFAULT of the row unchanged, also
\* for a BOOLEAN column with default TRUE or FALSE.
C8_OracleIsIdentity ==
  (pc = "ddl_rows" \/ Written("ddl")) /\ db_type = "oracle" =>
    LET Same(def, row) == def = ColumnDef(row, row["SQL_DATA_TYPE"], row["DEFAULT"])
    IN  EveryRowEmitted(Same)

\* C8 witness: an Oracle run has taken a BOOLEAN row with default TRUE.
C8_Witness ==
  /\ pc = "ddl_rows" /\ db_type = "oracle" /\ idx = 2
  /\ df[1]["SQL_DATA_TYPE"] = <<"B", "O", "O", "L", "E", "A", "N">> /\ df[1]["DEFAULT"] = <<"T", "R", "U", "E">>
  /\ df[1]["DATA_LENGTH"] = NaN /\ df[1]["NOT_NULL"] = NaN
  /\ DictGet(tables, <<"T">>) = << <<"c", " ", "B", "O", "O", "L", "E", "A", "N", " ", "D", "E", "F", "A", "U", "L", "T", " ", "(", "T", "R", "U", "E", ")">> >>

\* A type token read as BASE or BASE(params): the base is what stands before
\* the first "(", and the params are the rest.
TokenParts(token) ==
  LET k == CHOOSE k \in 0..Len(token) :
             /\ \A j \in 1..k : token[j] # "("
             /\ k = Len(token) \/ token[k + 1] = "("
  IN  [base |-> str_strip(SubSeq(token, 1, k)), params |-> SubSeq(token, k + 1, Len(token))]

\* M: the ORACLE_TO_SQLSERVER table, and the token itself where the table has
\* no entry for it.
M(base) ==
  IF \E i \in 1..Len(ORACLE_TO_SQLSERVER) : ORACLE_TO_SQLSERVER[i].key = base
  THEN ORACLE_TO_SQLSERVER[CHOOSE i \in 1..Len(ORACLE_TO_SQLSERVER) :
                             ORACLE_TO_SQLSERVER[i].key = base].val
  ELSE base

\* C9: for sqlserver, the column definition of every row has, after the
\* column name, M(BASE) and then the (params) of the type token of the row
\* unchanged.
C9_SqlServerTypeToken ==
  (pc = "ddl_rows" \/ Written("ddl")) /\ db_type = "sqlserver" =>
    LET Mapped(def, row) ==
          LET p == TokenParts(row["SQL_DATA_TYPE"])
              head == row["COLUMN_NAME"] \o <<" ">> \o M(p.base) \o p.params
          IN  /\ StartsWith(def, head)
              /\ Len(def) > Len(head) => def[Len(head) + 1] \in {" ", "("}
    IN  EveryRowEmitted(Mapped)

\* C9 witness: a SQL Server run has taken a VARCHAR2 (50) row.
C9_Witness ==
  /\ pc = "ddl_rows" /\ db_type = "sqlserver" /\ idx = 2
  /\ df[1]["SQL_DATA_TYPE"] = <<"V", "A", "R", "C", "H", "A", "R", "2", " ", "(", "5", "0", ")">>
  /\ StartsWith(DictGet(tables, <<"T">>)[1], <<"c", " ", "V", "A", "R", "C", "H", "A", "R", "(", "5", "0", ")">>)

\* The default of a row as the SQL Server script is to state it.
ClaimedDefault(base, default) ==
  IF base = <<"B", "O", "O", "L", "E", "A", "N">> /\ default = <<"F", "A", "L", "S", "E">> THEN <<"0">>
  ELSE IF base = <<"B", "O", "O", "L", "E", "A", "N">> /\ default = <<"T", "R", "U", "E">> THEN <<"1">>
  ELSE default

\* C10: for sqlserver, the default of a row is rewritten only if its base type
\* is BOOLEAN, FALSE to 0 and TRUE to 1 and no further; every other default,
\* and every default of a column of another type, is written as it is.
C10_SqlServerDefault ==
  (pc = "ddl_rows" \/ Written("ddl")) /\ db_type = "sqlserver" =>
    LET Rewritten(def, row) ==
          LET p == TokenParts(row["SQL_DATA_TYPE"])
          IN  def = ColumnDef(row, M(p.base) \o p.params,
                              ClaimedDefault(p.base, row["DEFAULT"]))
    IN  EveryRowEmitted(Rewritten)

\* C10 witness: a SQL Server run has taken a BOOLEAN row with default FALSE.
C10_Witness ==
  /\ pc = "ddl_rows" /\ db_type = "sqlserver" /\ idx = 2
  /\ df[1]["SQL_DATA_TYPE"] = <<"B", "O", "O", "L", "E", "A", "N">> /\ df[1]["DEFAULT"] = <<"F", "A", "L", "S", "E">>
  /\ df[1]["DATA_LENGTH"] = NaN /\ df[1]["NOT_NULL"] = NaN
  /\ DictGet(tables, <<"T">>) = << <<"c", " ", "I", "N", "T", " ", "D", "E", "F", "A", "U", "L", "T", " ", "(", "0", ")">> >>

\* The characters A-Z, a-z, 0-9 and underscore.
WordChars ==
  { "A", "B", "C", "D", "E", "F", "G", "H", "I", "J", "K", "L", "M", "N", "O", "P", "Q",
    "R", "S", "T", "U", "V", "W", "X", "Y", "Z",
    "a", "b", "c", "d", "e", "f", "g", "h", "i", "j", "k", "l", "m", "n", "o", "p", "q",
    "r", "s", "t", "u", "v", "w", "x", "y", "z",
    "0", "1", "2", "3", "4", "5", "6", "7", "8", "9", "_" }

\* The text with a backslash before each of its double quotes.
RECURSIVE Escaped(_)
Escaped(s) ==
  IF s = << >> THEN << >>
  ELSE (IF Head(s) = "\"" THEN << "\\", "\"" >> ELSE << Head(s) >>) \o Escaped(Tail(s))

\* The identifier the diagram is to have for a name.
ClaimedId(name) ==
  IF name = << >> THEN name
  ELSE IF /\ \A i \in 1..Len(name) : name[i] \in WordChars
          /\ str_lower(name) \notin D2_RESERVED_KEYWORDS
       THEN name
       ELSE << "\"" >> \o Escaped(name) \o << "\"" >>

\* The cells identifiers are taken from.
NameCells == {"DOMAIN", "TABLE_NAME", "COLUMN_NAME", "FKEY_TABLE"}

\* The table blocks of the diagram.
DiagramBlocks ==
  UNION { {b.tables[i] : i \in 1..Len(b.tables)} :
            b \in {files.d2[1].domains[k] : k \in 1..Len(files.d2[1].domains)} }

\* C11: sanitize_d2_identifier returns an empty name as it is, a name of
\* A-Z, a-z, 0-9 and underscore that is no reserved word in any case as it is,
\* and every other name in double quotes with a backslash before each double
\* quote in it: on every name cell of the sheet, taken as it stands and as the
\* diagram reads it, and in the diagram that is written, where a table has the
\* same identifier in its block and at both ends of a relationship.
C11_SanitizeIdentifier ==
  /\ \A i \in 1..Len(sheet) : \A f \in NameCells :
       /\ sanitize_d2_identifier(FillNa(sheet[i][f])) = ClaimedId(FillNa(sheet[i][f]))
       /\ sanitize_d2_identifier(str_strip(FillNa(sheet[i][f])))
            = ClaimedId(str_strip(FillNa(sheet[i][f])))
  /\ Written("d2") =>
       LET d == files.d2[1]
           rels == {d.relationships[i] : i \in 1..Len(d.relationships)}
           rows == {DiagramRows[i] : i \in 1..Len(DiagramRows)}
       IN  /\ {b.id : b \in DiagramBlocks} = {ClaimedId(t) : t \in DiagramTables}
           /\ UNION { {b.columns[i].name : i \in 1..Len(b.columns)} : b \in DiagramBlocks }
                = {ClaimedId(r["COLUMN_NAME"]) : r \in rows}
           /\ {d.domains[k].id : k \in 1..Len(d.domains)}
                \subseteq {ClaimedId(str_replace(str_lower(r["DOMAIN"]), " ", <<"_">>)) : r \in rows}
           /\ \A r \in rels :
                /\ \E b \in DiagramBlocks : b.id = r.to_table
                /\ \E e \in rows :
                     /\ r.to_table = ClaimedId(e["TABLE_NAME"])
                     /\ r.from_table = ClaimedId(e["FKEY_TABLE"])
                     /\ e["FKEY_TABLE"] \in DiagramTables =>
                          \E b \in DiagramBlocks : b.id = r.from_table

\* C11 witness: the diagram of a table named a"b with a column named Top is
\* written in domain Top: the table is "a\"b", and the column "Top" and the
\* domain "top" have their quotes.
C11_Witness ==
  /\ Written("d2") /\ Len(sheet) = 1
  /\ sheet[1]["TABLE_NAME"] = <<"a", "\"", "b">>
  /\ sheet[1]["COLUMN_NAME"] = <<"T", "o", "p">>
  /\ sheet[1]["DOMAIN"] = <<"T", "o", "p">>
  /\ files.d2[1].domains[1].id = <<"\"", "t", "o", "p", "\"">>
  /\ files.d2[1].domains[1].tables[1].id = <<"\"", "a", "\\", "\"", "b", "\"">>
  /\ files.d2[1].domains[1].tables[1].columns[1].name = <<"\"", "T", "o", "p", "\"">>

\* What a script has whatever the dialect: its calls without the header and
\* the terminator, each with its kind, its table and its arguments, the
\* column definitions of a create-table call counted.
Structure(script) ==
  LET Body(c) == c.call \notin {"PROCEDURES", "END"}
      body == SelectSeq(script, Body)
  IN  [i \in 1..Len(body) |->
         [call |-> body[i].call,
          table |-> body[i].table,
          args |-> IF body[i].call = "CREATE_TABLE"
                   THEN << Len(body[i].args) >> ELSE body[i].args]]

\* The run of generate_ddl on the rows for a dialect ends in an exception.
DdlRaises(rows, db) == \E i \in 1..Len(rows) : RaisesTypeError(rows[i], db)

\* The script has the header and the templates of the dialect, and the
\* terminator if and only if the dialect is oracle.
InDialect(script, db) ==
  /\ script[1].call = "PROCEDURES"
  /\ \A i \in 1..Len(script) : script[i].fmt = db
  /\ (script[Len(script)].call = "END") <=> (db = "oracle")

\* C12: when the run for one dialect has written its script, the run for the
\* other dialect on the same rows writes a script too, and the two scripts
\* have the same calls in the same order, with the same tables, key columns,
\* comments and foreign keys: they differ in the templates, the column
\* definitions, the header and the terminator alone.
C12_SameCallsInBothDialects ==
  Written("ddl") =>
    /\ InDialect(files.ddl, db_type)
    /\ \A other \in DbTypes :
         /\ ~DdlRaises(df, other)
         /\ LET script == DdlScript(FoldRows(df, Len(df), other), other)
            IN  /\ InDialect(script, other)
                /\ Structure(script) = Structure(files.ddl)

\* C12 holds on the sheets whose rows with a domain all have a data type.
C12_SameCallsWhenTyped ==
  Written("ddl") /\ (\A i \in 1..Len(df) : DdlSkips(df[i]) \/ pd_notna(df[i]["SQL_DATA_TYPE"])) =>
    /\ InDialect(files.ddl, db_type)
    /\ \A other \in DbTypes :
         /\ ~DdlRaises(df, other)
         /\ LET script == DdlScript(FoldRows(df, Len(df), other), other)
            IN  /\ InDialect(script, other)
                /\ Structure(script) = Structure(files.ddl)

\* The run for sqlserver has ended in the exception of a row without a data
\* type, and has written no script.
C12_SqlServerRaised ==
  /\ pc = "exit" /\ exit_code = 1 /\ db_type = "sqlserver" /\ ~Written("ddl")
  /\ Len(df) = 2 /\ idx = 2
  /\ pd_isna(df[2]["SQL_DATA_TYPE"])

\* The places of the diagram where the block of a table stands: container and
\* position in it.
PlacesOf(table_name) ==
  LET blocks == files.d2[1].domains
  IN  { p \in (1..Len(blocks)) \X (1..Len(sheet)) :
          /\ p[2] <= Len(blocks[p[1]].tables)
          /\ blocks[p[1]].tables[p[2]].id = sanitize_d2_identifier(table_name) }

\* The table is in one container, the one of the domain, and the relationship
\* statements name it with that domain at both ends.
InOneDomain(table_name, domain) ==
  LET blocks == files.d2[1].domains
      rels == files.d2[1].relationships
  IN  /\ Cardinality(PlacesOf(table_name)) = 1
      /\ \A p \in PlacesOf(table_name) : BlockDomain(blocks[p[1]]) = domain
      /\ \A i \in 1..Len(rels) :
           /\ rels[i].to_table = sanitize_d2_identifier(table_name) =>
                rels[i].to_domain = DomainId(domain)
           /\ rels[i].from_table = sanitize_d2_identifier(table_name) =>
                rels[i].from_domain = DomainId(domain)

\* The greatest of the domains on the rows of a table.
GreatestDomain(table_name) ==
  CHOOSE d \in DomainsOfTable(table_name) :
    \A e \in DomainsOfTable(table_name) : d = e \/ StrLess(e, d)

\* C13 as stated: a table of the diagram, also one whose rows have two or
\* more domains, is in exactly one container, that of the domain of its first
\* row, and the relationship statements use this domain for it at both ends.
C13_FirstRowDomainWins ==
  Written("d2") =>
    \A t \in DiagramTables :
      InOneDomain(t, DiagramRows[FirstRowOfDiagramTable(t)]["DOMAIN"])

\* C13 as amended: a table of the diagram, also one whose rows have two or
\* more domains, is in exactly one container, that of the greatest of its
\* domains in the order of strings, whatever the order of the rows, and the
\* relationship statements use this domain for it at both ends.
C13_GreatestDomainWins ==
  Written("d2") =>
    \A t \in DiagramTables : InOneDomain(t, GreatestDomain(t))

\* C13 witness: the first row of T has domain Ab, a later row of T domain B c;
\* the block of T is in the container of B c, and the relationship from the
\* foreign key of T ends at b_c.T.
C13_Witness ==
  /\ Written("d2") /\ Len(DiagramRows) = 2
  /\ DiagramRows[1]["TABLE_NAME"] = <<"T">> /\ DiagramRows[2]["TABLE_NAME"] = <<"T">>
  /\ DiagramRows[1]["DOMAIN"] = <<"A", "b">> /\ DiagramRows[2]["DOMAIN"] = <<"B", " ", "c">>
  /\ Len(files.d2[1].domains) = 1
  /\ files.d2[1].domains[1].id = <<"b", "_", "c">>
  /\ Len(files.d2[1].domains[1].tables[1].columns) = 2
  /\ \E i \in 1..Len(files.d2[1].relationships) :
       /\ files.d2[1].relationships[i].to_table = <<"T">>
       /\ files.d2[1].relationships[i].to_domain = <<"b", "_", "c">>

\* The rows of the sheet, as the diagram and as the DDL read them, that the
\* diagram takes for a table: they are the columns of its block, in order.
ColumnRowsOf(table_name, read) ==
  LET rd == ReadFilledStripped(sheet)
  IN  RowsIn(read,
             {i \in 1..Len(sheet) :
                rd[i]["DOMAIN"] # << >> /\ rd[i]["TABLE_NAME"] = table_name},
             Len(sheet))

\* The column of a block has the foreign_key tag.
Tagged(column) == \E k \in 1..Len(column.constraints) : column.constraints[k] = "foreign_key"

\* The columns of the diagram, each with its row as the diagram and as the
\* DDL read it, and the tagged columns are as many as the relationships.
TagsAre(IsEntry(_, _)) ==
  Written("d2") =>
    /\ \A t \in DiagramTables :
         \A p \in PlacesOf(t) :
           LET block == files.d2[1].domains[p[1]].tables[p[2]]
               rd == ColumnRowsOf(t, ReadFilledStripped(sheet))
               rs == ColumnRowsOf(t, ReadStripped(sheet))
           IN  /\ Len(block.columns) = Len(rd)
               /\ \A i \in 1..Len(rd) : Tagged(block.columns[i]) <=> IsEntry(rd[i], rs[i])

\* The columns with the tag are as many as the relationship statements.
TagsAreRelationships ==
  Written("d2") =>
    Cardinality({ q \in (1..Len(sheet)) \X (1..Len(sheet)) \X (1..Len(sheet)) :
                    /\ q[1] <= Len(files.d2[1].domains)
                    /\ q[2] <= Len(files.d2[1].domains[q[1]].tables)
                    /\ q[3] <= Len(files.d2[1].domains[q[1]].tables[q[2]].columns)
                    /\ Tagged(files.d2[1].domains[q[1]].tables[q[2]].columns[q[3]]) })
      = Len(files.d2[1].relationships)

\* C14: a column of the diagram has the foreign_key tag if and only if its
\* row has both a target table and a target column, which is when the DDL makes
\* a create-foreign-key call for it, and the tagged columns are the columns
\* with a relationship statement.
C14_ForeignKeyTagIsEntry ==
  LET Both(rd, rs) ==
        /\ (rd["FKEY_TABLE"] # << >> /\ rd["FKEY_COLUMN"] # << >>)
        /\ HasForeignKey(rs)
  IN  TagsAre(Both) /\ TagsAreRelationships

\* The tag goes by the target table alone: a column has it if and only if the
\* FKEY_TABLE cell of its row is not empty.
C14_ForeignKeyTagIsTargetTable ==
  LET TableOnly(rd, rs) == rd["FKEY_TABLE"] # << >>
  IN  TagsAre(TableOnly)

\* The diagram has a column with the foreign_key tag whose row has no target
\* column, and no relationship statement.
C14_TaggedWithoutTargetColumn ==
  /\ Written("d2") /\ Len(DiagramRows) = 1
  /\ DiagramRows[1]["FKEY_TABLE"] = <<"X">> /\ DiagramRows[1]["FKEY_COLUMN"] = << >>
  /\ Tagged(files.d2[1].domains[1].tables[1].columns[1])
  /\ files.d2[1].relationships = << >>

====
